---- MODULE Spec2Model ----
(***************************************************************************)
(* goenv: .env loading and typed access to the environment.                *)
(*                                                                         *)
(* Two builds of the package are modelled:                                 *)
(*   variant = "host"   src/env.go: every accessor reads the host          *)
(*                      environment directly, no cache, no lock;           *)
(*   variant = "store"  src/unnamed/part_002: a package-level map `env`    *)
(*                      (the Store) guarded by the RWMutex `mu`.           *)
(* Strings that the code inspects character by character (values) are      *)
(* sequences of one-character strings; keys and file names are atoms.      *)
(***************************************************************************)
EXTENDS Integers, Sequences, FiniteSets, TLC

VARIABLES
    variant,  \* which build runs: "host" or "store"
    host,     \* the host environment (os.Environ): a map key -> value
    env,      \* part_002:14  var env = map[string]string{}
    stale,    \* the map `env` pointed to before an unsynchronised replacement
    mu,       \* part_002:13  var mu = &sync.RWMutex{}
    pc,       \* per thread: the statement it is about to execute
    call,     \* per thread: the operation in progress (or last finished)
    ret,      \* per thread: what the operation returned
    todo,     \* per thread: entries of os.Environ() still to copy (part_002:26)
    fidx,     \* per thread: index of the file being loaded (part_002:55)
    h0,       \* the host environment when the current call started
    e0        \* the Store when the current call started

vars == <<variant, host, env, stale, mu, pc, call, ret, todo, fidx, h0, e0>>

----------------------------------------------------------------------------
(* Bounds and input sets *)

\* files passed to one Load call
MaxFiles == 3

Threads == {"t1", "t2", "t3"}
Main == "t1"
Keys == {"K1", "K2"}
\* a key os.Setenv rejects (empty name: EINVAL)
BadKey == ""

EmptyMap == [k \in {} |-> <<>>]
NoThread == "none"

\* small values for the load / store scenarios
ValA == <<"a">>
ValB == <<"b">>
Vals == {ValA, ValB}
Dflt == <<"d">>

MapPut(m, k, v) == [x \in DOMAIN m \cup {k} |-> IF x = k THEN v ELSE m[x]]
MapDel(m, k) == [x \in DOMAIN m \ {k} |-> m[x]]
Maps(ks, vs) == UNION {[d -> vs] : d \in SUBSET ks}

----------------------------------------------------------------------------
(* The host environment (package os) *)

Getenv(h, k) == IF k \in DOMAIN h THEN h[k] ELSE <<>>

LookupEnv(h, k) == [v |-> Getenv(h, k), ok |-> k \in DOMAIN h]

\* os.Setenv fails with EINVAL on an empty key and changes nothing
Setenv(h, k, v) ==
    IF k = BadKey THEN [host |-> h, err |-> TRUE]
    ELSE [host |-> MapPut(h, k, v), err |-> FALSE]

\* the keys of os.Environ(): strings.Split(e, "=")[0] of each entry
Environ(h) == DOMAIN h

----------------------------------------------------------------------------
(* .env files on disk *)

DefaultFile == ".env"
FileNames == {"f1", "f2", "bad", "missing"}

\* exists: os.Open / os.Stat succeeds; bad: the parser reports an error;
\* pairs: the assignments of the file in line order (key, trimmed value)
FileTable ==
    [n \in FileNames \cup {DefaultFile} |->
        CASE n = DefaultFile -> [exists |-> TRUE, bad |-> FALSE,
                                 pairs |-> << <<"K2", ValB>> >>]
          [] n = "f1" -> [exists |-> TRUE, bad |-> FALSE,
                          pairs |-> << <<"K1", ValA>> >>]
          [] n = "f2" -> [exists |-> TRUE, bad |-> FALSE,
                          pairs |-> << <<"K1", ValB>>, <<"K2", ValA>>, <<"K2", ValB>> >>]
          [] n = "bad" -> [exists |-> TRUE, bad |-> TRUE,
                           pairs |-> << <<"K2", ValA>> >>]
          [] OTHER -> [exists |-> FALSE, bad |-> FALSE, pairs |-> << >>]]

\* the file lists handed to Load: up to MaxFiles names, none given twice
FileSeqs ==
    {fs \in UNION {[1..n -> FileNames] : n \in 0..MaxFiles} :
        \A i, j \in 1..Len(fs) : i # j => fs[i] # fs[j]}

RECURSIVE parsePairs(_, _)
parsePairs(pairs, m) ==
    IF pairs = << >> THEN m
    ELSE parsePairs(Tail(pairs), MapPut(m, Head(pairs)[1], Head(pairs)[2]))

\* parseBytes(buf, envMap): fills envMap line by line, a later line of the
\* same key replacing an earlier one; reports an error on a malformed file
parseBytes(f) ==
    [envMap |-> parsePairs(f.pairs, EmptyMap), err |-> f.bad]

\* env.go:204-219
readFile(filename) ==
    LET f == FileTable[filename] IN
    IF ~f.exists THEN [envMap |-> EmptyMap, err |-> TRUE]
    ELSE parseBytes(f)

envMapOf(filename) == readFile(filename).envMap

\* faulty variant: the loop without the currentEnv test: every key is written
applyEnvMapAlways(h, envMap, overload) ==
    [k \in DOMAIN h \cup DOMAIN envMap |->
        IF k \in DOMAIN envMap THEN envMap[k] ELSE h[k]]

\* faulty variant: the loop without the overload flag: only unset keys are written
applyEnvMapNoOverload(h, envMap, overload) ==
    [k \in DOMAIN h \cup DOMAIN envMap |->
        IF k \in DOMAIN envMap /\ k \notin Environ(h) THEN envMap[k] ELSE h[k]]

\* env.go:188-199  currentEnv, then the os.Setenv loop over envMap
applyEnvMap(h, envMap, overload) ==
    [k \in DOMAIN h \cup DOMAIN envMap |->
        IF k \in DOMAIN envMap /\ (k \notin Environ(h) \/ overload)
        THEN envMap[k] ELSE h[k]]

\* faulty variant: the error of readFile is returned but what was parsed is applied
loadFileApplyingOnError(h, filename, overload) ==
    LET r == readFile(filename) IN
    [host |-> [k \in DOMAIN h \cup DOMAIN r.envMap |->
                  IF k \in DOMAIN envMapOf(filename) /\ (k \notin DOMAIN h \/ overload)
                  THEN r.envMap[k] ELSE h[k]],
     err |-> r.err]

\* env.go:182-202
loadFile(h, filename, overload) ==
    LET r == readFile(filename) IN
    IF r.err THEN [host |-> h, err |-> TRUE]
    ELSE [host |-> applyEnvMap(h, r.envMap, overload), err |-> FALSE]

----------------------------------------------------------------------------
(* Strings *)

\* env.go:221-244, the first loop: index of the first non-space byte
RECURSIVE trimLeft(_, _, _)
trimLeft(s, start, end) ==
    IF start < end /\ s[start + 1] = " " THEN trimLeft(s, start + 1, end) ELSE start

\* env.go:234-239, the second loop: one past the last non-space byte
RECURSIVE trimRight(_, _, _)
trimRight(s, start, end) ==
    IF end > start /\ s[end] = " " THEN trimRight(s, start, end - 1) ELSE end

fastTrim(s) ==
    IF s = <<>> THEN s
    ELSE LET start == trimLeft(s, 0, Len(s))
             end == trimRight(s, start, Len(s))
         IN IF start = 0 /\ end = Len(s) THEN s ELSE SubSeq(s, start + 1, end)

Upper == <<"A", "B", "C", "D", "E", "F", "G", "H", "I", "J", "K", "L", "M",
           "N", "O", "P", "Q", "R", "S", "T", "U", "V", "W", "X", "Y", "Z">>
Lower == <<"a", "b", "c", "d", "e", "f", "g", "h", "i", "j", "k", "l", "m",
           "n", "o", "p", "q", "r", "s", "t", "u", "v", "w", "x", "y", "z">>

\* strings.ToLower on the ASCII letters
ToLower(s) ==
    [i \in 1..Len(s) |->
        IF \E j \in 1..26 : Upper[j] = s[i]
        THEN Lower[CHOOSE j \in 1..26 : Upper[j] = s[i]]
        ELSE s[i]]

----------------------------------------------------------------------------
(* Fixed-width integers (package strconv)                                  *)
(* A machine integer is its bytes, least significant first: 8 bytes for    *)
(* the uint64 / int64 that strconv computes in, w/8 bytes after the        *)
(* conversion to a w-bit type. Signed values are two's complement.         *)

Digits == <<"0", "1", "2", "3", "4", "5", "6", "7", "8", "9">>
IsDigit(c) == \E i \in 1..10 : Digits[i] = c
DigitVal(c) == (CHOOSE i \in 1..10 : Digits[i] = c) - 1

\* strconv.IntSize on a 64-bit platform
IntSize == 64

Zero64 == <<0, 0, 0, 0, 0, 0, 0, 0>>

\* (n * m + c) mod 2^(8 * Len(n)), for small m and c
RECURSIVE mulAdd(_, _, _)
mulAdd(n, m, c) ==
    IF n = <<>> THEN <<>>
    ELSE LET x == Head(n) * m + c IN <<x % 256>> \o mulAdd(Tail(n), m, x \div 256)

\* unsigned a < b, words of equal length
RECURSIVE LessU(_, _)
LessU(a, b) ==
    IF a = <<>> THEN FALSE
    ELSE LET i == Len(a) IN
         IF a[i] # b[i] THEN a[i] < b[i]
         ELSE LessU(SubSeq(a, 1, i - 1), SubSeq(b, 1, i - 1))

\* two's complement negation
Neg(a) == mulAdd([i \in 1..Len(a) |-> 255 - a[i]], 1, 1)

\* a - 1
Pred(a) == Neg(mulAdd(Neg(a), 1, 1))

\* a + b mod 2^(8 * Len(a))
RECURSIVE addCarry(_, _, _)
addCarry(a, b, c) ==
    IF a = <<>> THEN <<>>
    ELSE LET x == Head(a) + Head(b) + c IN <<x % 256>> \o addCarry(Tail(a), Tail(b), x \div 256)

Add(a, b) == addCarry(a, b, 0)

\* 1<<bitSize - 1 and 1<<(bitSize-1) as uint64
MaxVal(bitSize) == [i \in 1..8 |-> IF i <= bitSize \div 8 THEN 255 ELSE 0]
SignBit(bitSize) == [i \in 1..8 |-> IF i = bitSize \div 8 THEN 128 ELSE 0]

\* strconv.ParseUint: cutoff = maxUint64/10 + 1
cutoffU64 == <<154, 153, 153, 153, 153, 153, 153, 25>>

\* the digit loop of strconv.ParseUint(s, 10, bitSize)
RECURSIVE parseUintLoop(_, _, _)
parseUintLoop(s, n, maxVal) ==
    IF s = <<>> THEN [val |-> n, err |-> ""]
    ELSE IF ~IsDigit(Head(s)) THEN [val |-> Zero64, err |-> "syntax"]
    ELSE IF ~LessU(n, cutoffU64) THEN [val |-> maxVal, err |-> "range"]
    ELSE LET n10 == mulAdd(n, 10, 0)
             n1 == mulAdd(n10, 1, DigitVal(Head(s)))
         IN IF LessU(n1, n10) \/ LessU(maxVal, n1)
            THEN [val |-> maxVal, err |-> "range"]
            ELSE parseUintLoop(Tail(s), n1, maxVal)

ParseUint(s, bitSize) ==
    IF s = <<>> THEN [val |-> Zero64, err |-> "syntax"]
    ELSE parseUintLoop(s, Zero64, MaxVal(IF bitSize = 0 THEN IntSize ELSE bitSize))

\* strconv.ParseInt(s, 10, bitSize)
ParseInt(s, bitSize) ==
    IF s = <<>> THEN [val |-> Zero64, err |-> "syntax"]
    ELSE LET neg == Head(s) = "-"
             s1 == IF Head(s) \in {"+", "-"} THEN Tail(s) ELSE s
             bs == IF bitSize = 0 THEN IntSize ELSE bitSize
             un == ParseUint(s1, bs)
             cutoff == SignBit(bs)
         IN IF un.err = "syntax" THEN [val |-> Zero64, err |-> "syntax"]
            ELSE IF ~neg /\ ~LessU(un.val, cutoff)
                 THEN [val |-> Pred(cutoff), err |-> "range"]
            ELSE IF neg /\ LessU(cutoff, un.val)
                 THEN [val |-> Neg(cutoff), err |-> "range"]
            ELSE [val |-> IF neg THEN Neg(un.val) ELSE un.val, err |-> ""]

\* strconv.Atoi(s): ParseInt(s, 10, 0) with a fast path of the same result
Atoi(s) == ParseInt(s, 0)

\* the conversions intN(val), uintN(val): keep the low bits
Convert(val, bits) == SubSeq(val, 1, bits \div 8)

\* the word of a small non-negative number
Word(n, bits) == [i \in 1..(bits \div 8) |-> IF i = 1 THEN n % 256 ELSE IF i = 2 THEN n \div 256 ELSE 0]

----------------------------------------------------------------------------
(* time.ParseDuration, for literals without a fraction: [-+]?([0-9]+unit)+ *)
(* A Duration is an int64 count of nanoseconds.                            *)

\* 1<<63 and 1<<63/10
two63 == SignBit(64)
two63div10 == <<204, 204, 204, 204, 204, 204, 204, 12>>

\* unitMap (the two micro-sign spellings of "us" left out): a unit's multiplier as a product of small factors, and
\* 1<<63/unit
unitMap == {
    [u |-> <<"n", "s">>, factors |-> <<>>, limit |-> <<0, 0, 0, 0, 0, 0, 0, 128>>],
    [u |-> <<"u", "s">>, factors |-> <<1000>>, limit |-> <<247, 83, 227, 165, 155, 196, 32, 0>>],
    [u |-> <<"m", "s">>, factors |-> <<1000, 1000>>, limit |-> <<246, 90, 208, 123, 99, 8, 0, 0>>],
    [u |-> <<"s">>, factors |-> <<1000, 1000, 1000>>, limit |-> <<4, 125, 193, 37, 2, 0, 0, 0>>],
    [u |-> <<"m">>, factors |-> <<1000, 1000, 1000, 60>>, limit |-> <<243, 159, 41, 9, 0, 0, 0, 0>>],
    [u |-> <<"h">>, factors |-> <<1000, 1000, 1000, 3600>>, limit |-> <<255, 23, 39, 0, 0, 0, 0, 0>>] }

RECURSIVE mulFactors(_, _)
mulFactors(v, fs) == IF fs = <<>> THEN v ELSE mulFactors(mulAdd(v, Head(fs), 0), Tail(fs))

\* time.leadingInt
RECURSIVE leadingInt(_, _)
leadingInt(s, x) ==
    IF s = <<>> \/ ~IsDigit(Head(s)) THEN [x |-> x, rem |-> s, err |-> FALSE]
    ELSE IF LessU(two63div10, x) THEN [x |-> Zero64, rem |-> s, err |-> TRUE]
    ELSE LET x1 == mulAdd(x, 10, DigitVal(Head(s))) IN
         IF LessU(two63, x1) THEN [x |-> Zero64, rem |-> s, err |-> TRUE]
         ELSE leadingInt(Tail(s), x1)

\* length of the unit: up to the next '.' or digit
RECURSIVE unitLen(_)
unitLen(s) ==
    IF s = <<>> \/ Head(s) = "." \/ IsDigit(Head(s)) THEN 0 ELSE 1 + unitLen(Tail(s))

DurErr == [val |-> Zero64, err |-> TRUE]

\* the loop `for s != ""` of time.ParseDuration
RECURSIVE durationLoop(_, _)
durationLoop(s, d) ==
    IF s = <<>> THEN [val |-> d, err |-> FALSE]
    ELSE IF ~IsDigit(Head(s)) THEN DurErr
    ELSE LET li == leadingInt(s, Zero64)
             i == unitLen(li.rem)
             u == SubSeq(li.rem, 1, i)
         IN IF li.err \/ i = 0 \/ ~(\E e \in unitMap : e.u = u) THEN DurErr
            ELSE LET e == CHOOSE e \in unitMap : e.u = u
                     d1 == Add(d, mulFactors(li.x, e.factors))
                 IN IF LessU(e.limit, li.x) \/ LessU(two63, d1) THEN DurErr
                    ELSE durationLoop(SubSeq(li.rem, i + 1, Len(li.rem)), d1)

ParseDuration(s0) ==
    LET neg == s0 # <<>> /\ Head(s0) = "-"
        s == IF s0 # <<>> /\ Head(s0) \in {"+", "-"} THEN Tail(s0) ELSE s0
    IN IF s = <<"0">> THEN [val |-> Zero64, err |-> FALSE]
       ELSE IF s = <<>> THEN DurErr
       ELSE LET r == durationLoop(s, Zero64) IN
            IF r.err THEN DurErr
            ELSE IF neg THEN [val |-> Neg(r.val), err |-> FALSE]
            ELSE IF ~LessU(r.val, two63) THEN DurErr
            ELSE r

----------------------------------------------------------------------------
(* Host variant (src/env.go): accessors *)

\* a returned (value, error) pair
Res(v, e) == [val |-> v, err |-> e]

\* faulty variant: Get forgets the default
GetNoDefault(h, key, defaultValue) ==
    LET r == LookupEnv(h, key) IN
    IF r.ok THEN fastTrim(r.v) ELSE <<>>

\* env.go:27-32
Get(h, key, defaultValue) ==
    LET r == LookupEnv(h, key) IN
    IF r.ok THEN fastTrim(r.v) ELSE defaultValue

\* env.go:35-37
String(h, key, defaultValue) == Get(h, key, defaultValue)

\* env.go:21-23
IsSet(h, key) == Get(h, key, <<>>) # <<>>

\* faulty variant: a value that is not a truthy literal answers false
BoolFalseOnOther(h, key, defaultValue) ==
    LET r == LookupEnv(h, key) IN
    IF ~r.ok THEN defaultValue
    ELSE fastTrim(r.v) \in {<<"t", "r", "u", "e">>, <<"1">>, <<"t">>, <<"T">>,
                            <<"T", "R", "U", "E">>, <<"T", "r", "u", "e">>}

\* env.go:40-51
Bool(h, key, defaultValue) ==
    LET val == Get(h, key, <<>>) IN
    IF \/ val = <<"t", "r", "u", "e">>
       \/ val = <<"1">>
       \/ val = <<"t">>
       \/ val = <<"T">>
       \/ val = <<"T", "R", "U", "E">>
       \/ val = <<"T", "r", "u", "e">>
    THEN TRUE ELSE defaultValue

IntTypes == {"int", "int8", "int16", "int32", "int64",
             "uint", "uint8", "uint16", "uint32", "uint64"}
Signed(T) == T \in {"int", "int8", "int16", "int32", "int64"}

\* width of T in bits
Width(T) ==
    CASE T \in {"int8", "uint8"} -> 8
      [] T \in {"int16", "uint16"} -> 16
      [] T \in {"int32", "uint32"} -> 32
      [] T \in {"int64", "uint64"} -> 64
      [] OTHER -> IntSize

\* faulty variant: the int8 case parses with the bitSize of int16
parseBitsInt8As16(T) ==
    CASE T = "int" -> 0
      [] T = "int8" -> 16
      [] T = "int16" -> 16
      [] T = "int32" -> 32
      [] T = "int64" -> 64
      [] T = "uint" -> 0
      [] T = "uint8" -> 8
      [] T = "uint16" -> 16
      [] T = "uint32" -> 32
      [] T = "uint64" -> 64

\* env.go:64-107, the bitSize each case of the type switch hands to strconv
\* (0 stands for the platform's int in Atoi and ParseUint(v, 10, 0))
parseBits(T) ==
    CASE T = "int" -> 0
      [] T = "int8" -> 8
      [] T = "int16" -> 16
      [] T = "int32" -> 32
      [] T = "int64" -> 64
      [] T = "uint" -> 0
      [] T = "uint8" -> 8
      [] T = "uint16" -> 16
      [] T = "uint32" -> 32
      [] T = "uint64" -> 64

\* env.go:55-110
\* (named IntT: Int is the set of integers here)
IntT(T, h, key, defaultValue) ==
    LET v == Get(h, key, <<>>) IN
    IF v = <<>> THEN Res(defaultValue, FALSE)
    ELSE LET r == IF T = "int" THEN Atoi(v)
                  ELSE IF Signed(T) THEN ParseInt(v, parseBits(T))
                  ELSE ParseUint(v, parseBits(T))
         IN Res(Convert(r.val, Width(T)), r.err # "")

\* env.go:115-121
Duration(h, key, defaultValue) ==
    LET v == Get(h, key, <<>>) IN
    IF v = <<>> THEN Res(defaultValue, FALSE)
    ELSE ParseDuration(v)

----------------------------------------------------------------------------
(* Host variant: Load *)

\* env.go:175-180
filenamesOrDefault(filenames) ==
    IF Len(filenames) = 0 THEN <<DefaultFile>> ELSE filenames

\* faulty variant: Load asks loadFile to override
LoadOverloadOn == TRUE

\* env.go:131  the overload argument Load hands to loadFile
LoadOverload == FALSE

----------------------------------------------------------------------------
(* Store variant: Bool and Int (part_002:120-139) *)

\* part_002:124-127
StoreBool(e, key, value) ==
    IF key \in DOMAIN e THEN ToLower(e[key]) = <<"t", "r", "u", "e">> ELSE value

\* part_002:134-138  i, _ := strconv.Atoi(v); return i
StoreInt(e, key, value) ==
    IF key \in DOMAIN e THEN Convert(Atoi(e[key]).val, IntSize) ELSE value

----------------------------------------------------------------------------
(* Marshal and its escaping (src/env.go:139-174) *)

\* the backquote character, which a string of this notation cannot hold
Backquote == "BACKQUOTE"

\* env.go:160  const doubleQuoteSpecialChars: backslash, newline, carriage
\* return, double quote, !, $ and backquote, in this order
doubleQuoteSpecialChars == <<"\\", "\n", "\r", "\"", "!", "$", Backquote>>

\* strings.Replace(line, c, toReplace, -1) for a one-character c
RECURSIVE Replace(_, _, _)
Replace(line, c, toReplace) ==
    IF line = <<>> THEN <<>>
    ELSE (IF Head(line) = c THEN toReplace ELSE <<Head(line)>>)
             \o Replace(Tail(line), c, toReplace)

\* env.go:164-170  what the special character c is replaced by
toReplaceOf(c) ==
    IF c = "\n" THEN <<"\\", "n">>
    ELSE IF c = "\r" THEN <<"\\", "r">>
    ELSE <<"\\", c>>

\* faulty variant: the special characters are taken in another order, the
\* backslash last
escapeBackslashLast(line, i) ==
    LET order == <<"\n", "\r", "\"", "!", "$", Backquote, "\\">>
        RECURSIVE go(_, _)
        go(l, j) == IF j > Len(order) THEN l
                    ELSE go(Replace(l, order[j], toReplaceOf(order[j])), j + 1)
    IN go(line, i)

\* env.go:163-172  the loop over the special characters, from the i-th on
RECURSIVE escapeFrom(_, _)
escapeFrom(line, i) ==
    IF i > Len(doubleQuoteSpecialChars) THEN line
    ELSE LET c == doubleQuoteSpecialChars[i]
         IN escapeFrom(Replace(line, c, toReplaceOf(c)), i + 1)

\* env.go:162-174
doubleQuoteEscape(line) == escapeFrom(line, 1)

\* the keys of the environments that are marshalled: two plain names, one
\* with a colon in it, one that starts with #
MarshalKeys == {"K1", "K2", "A:B", "#C"}

\* the name of a key, character by character (keys are atoms elsewhere)
KeyText(k) ==
    CASE k = "K1" -> <<"K", "1">>
      [] k = "K2" -> <<"K", "2">>
      [] k = "A:B" -> <<"A", ":", "B">>
      [] k = "#C" -> <<"#", "C">>

\* fmt.Sprintf("%d", d) for an int d: the decimal digits of the magnitude,
\* by repeated division of the bytes by ten, behind the sign
Sprintd(d) ==
    LET RECURSIVE fmtDivMod(_, _, _)
        fmtDivMod(a, i, r) ==
            IF i = 0 THEN [q |-> <<>>, r |-> r]
            ELSE LET cur == r * 256 + a[i]
                     rest == fmtDivMod(a, i - 1, cur % 10)
                 IN [q |-> Append(rest.q, cur \div 10), r |-> rest.r]
        RECURSIVE fmtDigits(_)
        fmtDigits(a) ==
            IF a = [i \in 1..Len(a) |-> 0] THEN <<>>
            ELSE LET dm == fmtDivMod(a, Len(a), 0)
                 IN Append(fmtDigits(dm.q), Digits[dm.r + 1])
    IN IF d = Zero64 THEN <<"0">>
       ELSE IF d[Len(d)] >= 128 THEN <<"-">> \o fmtDigits(Neg(d))
       ELSE fmtDigits(d)

\* the byte of a character, for the ones the lines are made of
CharCode(c) ==
    CASE c = "\n" -> 10 [] c = "\r" -> 13 [] c = " " -> 32 [] c = "!" -> 33
      [] c = "\"" -> 34 [] c = "#" -> 35 [] c = "$" -> 36 [] c = "+" -> 43
      [] c = "-" -> 45 [] IsDigit(c) -> 48 + DigitVal(c)
      [] c = ":" -> 58 [] c = "=" -> 61 [] c = "A" -> 65 [] c = "B" -> 66
      [] c = "C" -> 67 [] c = "K" -> 75 [] c = "\\" -> 92
      [] c = Backquote -> 96 [] c = "a" -> 97 [] c = "b" -> 98 [] c = "f" -> 102
      [] c = "n" -> 110 [] c = "o" -> 111 [] c = "r" -> 114 [] c = "x" -> 120

\* env.go:156  sort.Strings(lines): ascending, strings compared byte by byte
RECURSIVE SortStrings(_)
SortStrings(lines) ==
    LET RECURSIVE LineLess(_, _)
        LineLess(a, b) ==
            IF b = <<>> THEN FALSE
            ELSE IF a = <<>> THEN TRUE
            ELSE IF Head(a) # Head(b) THEN CharCode(Head(a)) < CharCode(Head(b))
            ELSE LineLess(Tail(a), Tail(b))
    IN IF lines = {} THEN <<>>
       ELSE LET first == CHOOSE x \in lines : \A y \in lines : ~LineLess(y, x)
            IN <<first>> \o SortStrings(lines \ {first})

\* env.go:157  strings.Join(lines, "\n")
RECURSIVE Join(_)
Join(lines) ==
    IF lines = <<>> THEN <<>>
    ELSE IF Len(lines) = 1 THEN Head(lines)
    ELSE Head(lines) \o <<"\n">> \o Join(Tail(lines))

\* faulty variant: the value is quoted as it is, without escaping
marshalLineNoEscape(k, v) ==
    IF Atoi(v).err = "" THEN KeyText(k) \o <<"=">> \o Sprintd(Atoi(v).val)
    ELSE KeyText(k) \o <<"=", "\"">> \o v \o <<"\"">>

\* env.go:150-154  the line of key k with (trimmed) value v
marshalLine(k, v) ==
    IF Atoi(v).err = "" THEN KeyText(k) \o <<"=">> \o Sprintd(Atoi(v).val)
    ELSE KeyText(k) \o <<"=", "\"">> \o doubleQuoteEscape(v) \o <<"\"">>

\* env.go:141-158
Marshal(h) ==
    LET envMap == [k \in Environ(h) |-> fastTrim(Getenv(h, k))]
    IN Join(SortStrings({marshalLine(k, envMap[k]) : k \in DOMAIN envMap}))
----------------------------------------------------------------------------
(* The file grammar, character by character: blank lines and lines whose   *)
(* first character after trimming is # are skipped; the first = or : of a *)
(* line separates the key from the value; both are trimmed; quotes are     *)
(* ordinary characters.                                                    *)

\* the key of a name; "other" for a name that is none of MarshalKeys
KeyOfText(s) ==
    IF \E k \in MarshalKeys : KeyText(k) = s
    THEN CHOOSE k \in MarshalKeys : KeyText(k) = s
    ELSE "other"

\* one line: skipped, an assignment, or malformed
parseLine(line) ==
    LET t == fastTrim(line)
        seps == {i \in 1..Len(t) : t[i] \in {"=", ":"}}
    IN IF t = <<>> \/ Head(t) = "#" THEN [kind |-> "skip"]
       ELSE IF seps = {} THEN [kind |-> "bad"]
       ELSE LET i == CHOOSE x \in seps : \A y \in seps : x <= y
                key == fastTrim(SubSeq(t, 1, i - 1))
            IN IF key = <<>> THEN [kind |-> "bad"]
               ELSE [kind |-> "pair", key |-> KeyOfText(key),
                     value |-> fastTrim(SubSeq(t, i + 1, Len(t)))]

\* parseBytes on the bytes of a text: the text is split at the newline
\* characters and the lines are read in order; a malformed line is an error
parseText(text) ==
    LET RECURSIVE splitLines(_, _)
        splitLines(rest, cur) ==
            IF rest = <<>> THEN <<cur>>
            ELSE IF Head(rest) = "\n" THEN <<cur>> \o splitLines(Tail(rest), <<>>)
            ELSE splitLines(Tail(rest), Append(cur, Head(rest)))
        RECURSIVE parseLines(_, _)
        parseLines(lines, acc) ==
            IF lines = <<>> THEN acc
            ELSE LET l == parseLine(Head(lines)) IN
                 IF l.kind = "bad" THEN [acc EXCEPT !.err = TRUE]
                 ELSE IF l.kind = "skip" THEN parseLines(Tail(lines), acc)
                 ELSE parseLines(Tail(lines),
                          [acc EXCEPT !.envMap = MapPut(acc.envMap, l.key, l.value)])
    IN parseLines(splitLines(text, <<>>), [envMap |-> EmptyMap, err |-> FALSE])
----------------------------------------------------------------------------
(* Store variant (src/unnamed/part_002): records and lock *)

NoCall == [op |-> "none", key |-> "", val |-> <<>>, files |-> <<>>, typ |-> ""]
NoRet == [done |-> FALSE, val |-> <<>>, err |-> FALSE]
Ret(v, e) == [done |-> TRUE, val |-> v, err |-> e]
\* a result computed but not yet returned (a deferred unlock is still to run)
Pending(r) == [r EXCEPT !.done = FALSE]
Returned(r) == [r EXCEPT !.done = TRUE]
NoStale == [set |-> FALSE, m |-> EmptyMap]

MkCall(op, key, val) == [op |-> op, key |-> key, val |-> val, files |-> <<>>, typ |-> ""]
MkLoad(op, files) == [op |-> op, key |-> "", val |-> <<>>, files |-> files, typ |-> ""]

\* faulty variant: Lock never waits
CanLockAlways == TRUE

\* sync.RWMutex: Lock waits for the writer and all readers to leave,
\* RLock waits for the writer to leave
CanLock == mu.w = NoThread /\ mu.r = {}
CanRLock == mu.w = NoThread

\* Begin an operation: remember the call and the state it started in.
Begin(t, c, first) ==
    /\ pc[t] = "idle"
    /\ pc' = [pc EXCEPT ![t] = first]
    /\ call' = [call EXCEPT ![t] = c]
    /\ ret' = [ret EXCEPT ![t] = NoRet]
    /\ h0' = host
    /\ e0' = env
    /\ UNCHANGED <<variant, host, env, stale, mu, todo, fidx>>

\* Return from an operation.
Finish(t, r) ==
    /\ pc' = [pc EXCEPT ![t] = "idle"]
    /\ ret' = [ret EXCEPT ![t] = r]

\* An access to the package variable `env` that is not ordered after the
\* unsynchronised assignment of Reload (part_002:35) may still reach the
\* map `env` pointed to before it.
Views == {env} \cup (IF stale.set THEN {stale.m} ELSE {})

\* env[key] = value through one of the maps such an access can reach
EnvWrite(key, value) ==
    \/ /\ env' = MapPut(env, key, value)
       /\ UNCHANGED stale
    \/ /\ stale.set
       /\ stale' = [stale EXCEPT !.m = MapPut(stale.m, key, value)]
       /\ UNCHANGED env

----------------------------------------------------------------------------
(* Reload and loadSystemEnv (part_002:21-37) *)

CallReload(t) ==
    /\ variant = "store"
    /\ Begin(t, MkCall("Reload", "", <<>>), "Reload_35")

\* faulty variant: Reload keeps the map and refills it in place
ReloadKeep(e) == e

\* the map Reload installs at line 35
ReloadFresh(e) == EmptyMap

\* part_002:35  env = map[string]string{}   (mu is not held)
Reload_35(t) ==
    /\ pc[t] = "Reload_35"
    /\ stale' = [set |-> TRUE, m |-> env]
    /\ env' = ReloadFresh(env)
    /\ pc' = [pc EXCEPT ![t] = "lse_Lock"]
    /\ UNCHANGED <<variant, host, mu, call, ret, todo, fidx, h0, e0>>

\* part_002:23,26  mu.Lock(); range os.Environ()
loadSystemEnv_Lock(t) ==
    /\ pc[t] = "lse_Lock"
    /\ CanLock
    /\ mu' = [mu EXCEPT !.w = t]
    /\ todo' = [todo EXCEPT ![t] = Environ(host)]
    /\ stale' = IF \E u \in Threads \ {t} : pc[u] = "lse_Lock" THEN stale ELSE NoStale
    /\ pc' = [pc EXCEPT ![t] = "lse_loop"]
    /\ UNCHANGED <<variant, host, env, call, ret, fidx, h0, e0>>

\* part_002:27-28  env[pair[0]] = os.Getenv(pair[0])
loadSystemEnv_Copy(t) ==
    /\ pc[t] = "lse_loop"
    /\ todo[t] # {}
    /\ \E k \in todo[t] :
          /\ EnvWrite(k, Getenv(host, k))
          /\ todo' = [todo EXCEPT ![t] = todo[t] \ {k}]
    /\ UNCHANGED <<variant, host, mu, pc, call, ret, fidx, h0, e0>>

\* part_002:24  defer mu.Unlock(), then back in the caller of Reload:
\* Reload() itself (36-37), Load() without files (49-51), or the file loop
\* of Load (70-73)
loadSystemEnv_Unlock(t) ==
    /\ pc[t] = "lse_loop"
    /\ todo[t] = {}
    /\ mu' = [mu EXCEPT !.w = NoThread]
    /\ IF call[t].op = "Load" /\ fidx[t] < Len(call[t].files)
       THEN /\ fidx' = [fidx EXCEPT ![t] = fidx[t] + 1]
            /\ pc' = [pc EXCEPT ![t] = "Load_58"]
            /\ UNCHANGED ret
       ELSE /\ Finish(t, Ret("", FALSE))
            /\ fidx' = [fidx EXCEPT ![t] = 1]
    /\ UNCHANGED <<variant, host, env, stale, call, todo, h0, e0>>

----------------------------------------------------------------------------
(* Readers: Get, MustGet, Bool, Int (part_002:76-85, 101-110, 120-139) *)

\* part_002:81-84
StoreGet(e, key, value) == IF key \in DOMAIN e THEN Ret(e[key], FALSE) ELSE Ret(value, FALSE)

\* faulty variant: a key the Store lacks is looked up in the host environment
MustGetHostFallback(e, key) ==
    IF key \in DOMAIN e THEN Ret(e[key], FALSE)
    ELSE IF key \in DOMAIN host THEN Ret(host[key], FALSE)
    ELSE Ret(<<>>, TRUE)

\* part_002:106-109
MustGet(e, key) == IF key \in DOMAIN e THEN Ret(e[key], FALSE) ELSE Ret(<<>>, TRUE)

CallGet(t, key, value) ==
    /\ variant = "store"
    /\ Begin(t, MkCall("Get", key, value), "RLock")

CallMustGet(t, key) ==
    /\ variant = "store"
    /\ Begin(t, MkCall("MustGet", key, <<>>), "RLock")

CallStoreBool(t, key, value) ==
    /\ variant = "store"
    /\ Begin(t, MkCall("Bool", key, value), "RLock")

CallStoreInt(t, key, value) ==
    /\ variant = "store"
    /\ Begin(t, MkCall("Int", key, value), "RLock")

\* mu.RLock()
RLock(t) ==
    /\ pc[t] = "RLock"
    /\ CanRLock
    /\ mu' = [mu EXCEPT !.r = mu.r \cup {t}]
    /\ pc' = [pc EXCEPT ![t] = "read"]
    /\ UNCHANGED <<variant, host, env, stale, call, ret, todo, fidx, h0, e0>>

ReadResult(e, c) ==
    CASE c.op = "Get" -> StoreGet(e, c.key, c.val)
      [] c.op = "MustGet" -> MustGet(e, c.key)
      [] c.op = "Bool" -> Ret(StoreBool(e, c.key, c.val), FALSE)
      [] c.op = "Int" -> Ret(StoreInt(e, c.key, c.val), FALSE)
      [] OTHER -> NoRet

\* the body of the reader, under the read lock
Read(t) ==
    /\ pc[t] = "read"
    /\ \E e \in Views : ret' = [ret EXCEPT ![t] = Pending(ReadResult(e, call[t]))]
    /\ pc' = [pc EXCEPT ![t] = "RUnlock"]
    /\ UNCHANGED <<variant, host, env, stale, mu, call, todo, fidx, h0, e0>>

\* defer mu.RUnlock()
RUnlock(t) ==
    /\ pc[t] = "RUnlock"
    /\ mu' = [mu EXCEPT !.r = mu.r \ {t}]
    /\ Finish(t, Returned(ret[t]))
    /\ UNCHANGED <<variant, host, env, stale, call, todo, fidx, h0, e0>>

----------------------------------------------------------------------------
(* Writers: Set, MustSet (part_002:87-99, 112-118) *)

CallSet(t, key, value) ==
    /\ variant = "store"
    /\ Begin(t, MkCall("Set", key, value), "Lock")

CallMustSet(t, key, value) ==
    /\ variant = "store"
    /\ Begin(t, MkCall("MustSet", key, value), "Lock")

\* mu.Lock()
Lock(t) ==
    /\ pc[t] = "Lock"
    /\ CanLock
    /\ mu' = [mu EXCEPT !.w = t]
    /\ pc' = [pc EXCEPT ![t] = IF call[t].op = "MustSet" THEN "MustSet_93" ELSE "Set_117"]
    /\ UNCHANGED <<variant, host, env, stale, call, ret, todo, fidx, h0, e0>>

\* faulty variant: Set writes the host environment as MustSet does
SetHostToo(h, key, value) == MapPut(h, key, value)

\* part_002:114-118  what Set does to the host environment: nothing
SetHost(h, key, value) == h

\* part_002:117  env[key] = value
Set_117(t) ==
    /\ pc[t] = "Set_117"
    /\ EnvWrite(call[t].key, call[t].val)
    /\ host' = SetHost(host, call[t].key, call[t].val)
    /\ pc' = [pc EXCEPT ![t] = "Unlock"]
    /\ UNCHANGED <<variant, mu, call, ret, todo, fidx, h0, e0>>

\* faulty variant: the error of os.Setenv is dropped and the Store is written
MustSet_93_IgnoreErr(t) ==
    /\ pc[t] = "MustSet_93"
    /\ host' = Setenv(host, call[t].key, call[t].val).host
    /\ pc' = [pc EXCEPT ![t] = "MustSet_97"]
    /\ UNCHANGED <<variant, env, stale, mu, call, ret, todo, fidx, h0, e0>>

\* part_002:93-96  err := os.Setenv(key, value); if err != nil { return err }
MustSet_93(t) ==
    /\ pc[t] = "MustSet_93"
    /\ LET r == Setenv(host, call[t].key, call[t].val) IN
          /\ host' = r.host
          /\ IF r.err
             THEN /\ ret' = [ret EXCEPT ![t] = Pending(Ret(<<>>, TRUE))]
                  /\ pc' = [pc EXCEPT ![t] = "Unlock"]
             ELSE /\ pc' = [pc EXCEPT ![t] = "MustSet_97"]
                  /\ UNCHANGED ret
    /\ UNCHANGED <<variant, env, stale, mu, call, todo, fidx, h0, e0>>

\* part_002:97-98  env[key] = value; return nil
MustSet_97(t) ==
    /\ pc[t] = "MustSet_97"
    /\ EnvWrite(call[t].key, call[t].val)
    /\ ret' = [ret EXCEPT ![t] = Pending(Ret(<<>>, FALSE))]
    /\ pc' = [pc EXCEPT ![t] = "Unlock"]
    /\ UNCHANGED <<variant, host, mu, call, todo, fidx, h0, e0>>

\* defer mu.Unlock()
Unlock(t) ==
    /\ pc[t] = "Unlock"
    /\ mu' = [mu EXCEPT !.w = NoThread]
    /\ Finish(t, Returned(ret[t]))
    /\ UNCHANGED <<variant, host, env, stale, call, todo, fidx, h0, e0>>

----------------------------------------------------------------------------
(* Load of the Store variant (part_002:39-74) *)

\* godotenv.Load(file): reads the file and sets the keys the host
\* environment does not have (its loadFile is the one of env.go:182-202,
\* called with overload = false)
godotenvLoad(h, filename) == loadFile(h, filename, FALSE)

CallStoreLoad(t, files) ==
    /\ variant = "store"
    /\ Begin(t, MkLoad("Load", files), IF files = <<>> THEN "Load_47" ELSE "Load_58")

\* part_002:47-51  err := godotenv.Load(); if err == nil { Reload() }
Load_47(t) ==
    /\ pc[t] = "Load_47"
    /\ LET r == godotenvLoad(host, DefaultFile) IN
          /\ host' = r.host
          /\ IF r.err
             THEN Finish(t, Ret(DefaultFile, TRUE))
             ELSE /\ pc' = [pc EXCEPT ![t] = "Reload_35"]
                  /\ UNCHANGED ret
    /\ UNCHANGED <<variant, env, stale, mu, call, todo, fidx, h0, e0>>

\* part_002:58-62  if _, err := os.Stat(file); err != nil { return err }
Load_58(t) ==
    /\ pc[t] = "Load_58"
    /\ IF FileTable[call[t].files[fidx[t]]].exists
       THEN /\ pc' = [pc EXCEPT ![t] = "Load_65"]
            /\ UNCHANGED <<ret, fidx>>
       ELSE /\ Finish(t, Ret(call[t].files[fidx[t]], TRUE))
            /\ fidx' = [fidx EXCEPT ![t] = 1]
    /\ UNCHANGED <<variant, host, env, stale, mu, call, todo, h0, e0>>

\* part_002:65-70  if err := godotenv.Load(file); err != nil { return err }
\*                 Reload()
Load_65(t) ==
    /\ pc[t] = "Load_65"
    /\ LET r == godotenvLoad(host, call[t].files[fidx[t]]) IN
          /\ host' = r.host
          /\ IF r.err
             THEN /\ Finish(t, Ret(call[t].files[fidx[t]], TRUE))
                  /\ fidx' = [fidx EXCEPT ![t] = 1]
             ELSE /\ pc' = [pc EXCEPT ![t] = "Reload_35"]
                  /\ UNCHANGED <<ret, fidx>>
    /\ UNCHANGED <<variant, env, stale, mu, call, todo, h0, e0>>

\* the program (or an external ENV manager, between two calls) writes the
\* host environment through package os, behind the Store's back
OsSetenv(t, k, v) ==
    /\ variant = "store"
    /\ pc[t] = "idle"
    /\ call' = [call EXCEPT ![t] = MkCall("Setenv", k, v)]
    /\ ret' = [ret EXCEPT ![t] = Ret(<<>>, Setenv(host, k, v).err)]
    /\ h0' = host
    /\ e0' = env
    /\ host' = Setenv(host, k, v).host
    /\ UNCHANGED <<variant, env, stale, mu, pc, todo, fidx>>

OsUnsetenv(t, k) ==
    /\ variant = "store"
    /\ pc[t] = "idle"
    /\ k \in DOMAIN host
    /\ call' = [call EXCEPT ![t] = MkCall("Unsetenv", k, <<>>)]
    /\ ret' = [ret EXCEPT ![t] = Ret(<<>>, FALSE)]
    /\ h0' = host
    /\ e0' = env
    /\ host' = MapDel(host, k)
    /\ UNCHANGED <<variant, env, stale, mu, pc, todo, fidx>>

ReaderSteps(t) == RLock(t) \/ Read(t) \/ RUnlock(t)

WriterSteps(t) ==
    Lock(t) \/ Set_117(t) \/ MustSet_93(t) \/ MustSet_97(t) \/ Unlock(t)

ReloadSteps(t) ==
    Reload_35(t) \/ loadSystemEnv_Lock(t) \/ loadSystemEnv_Copy(t) \/ loadSystemEnv_Unlock(t)

LoadSteps(t) == Load_47(t) \/ Load_58(t) \/ Load_65(t)

----------------------------------------------------------------------------
(* Host variant: one sequential caller; every call runs to completion *)

HostDo(c, r, h) ==
    /\ variant = "host"
    /\ pc[Main] = "idle"
    /\ call' = [call EXCEPT ![Main] = c]
    /\ ret' = [ret EXCEPT ![Main] = r]
    /\ h0' = host
    /\ host' = h
    /\ UNCHANGED <<variant, env, stale, mu, pc, todo, fidx, e0>>

MkInt(T, key, val) == [op |-> "Int", key |-> key, val |-> val, files |-> <<>>, typ |-> T]

DoGet(key, d) == HostDo(MkCall("Get", key, d), Ret(Get(host, key, d), FALSE), host)

DoString(key, d) == HostDo(MkCall("String", key, d), Ret(String(host, key, d), FALSE), host)

DoIsSet(key) == HostDo(MkCall("IsSet", key, <<>>), Ret(IsSet(host, key), FALSE), host)

DoBool(key, d) == HostDo(MkCall("Bool", key, d), Ret(Bool(host, key, d), FALSE), host)

DoInt(T, key, d) ==
    LET r == IntT(T, host, key, d) IN HostDo(MkInt(T, key, d), Ret(r.val, r.err), host)

DoDuration(key, d) ==
    LET r == Duration(host, key, d) IN HostDo(MkCall("Duration", key, d), Ret(r.val, r.err), host)

\* env.go:127-128  filenames = filenamesOrDefault(filenames)
DoLoad(files) ==
    /\ variant = "host"
    /\ Begin(Main, MkLoad("Load", filenamesOrDefault(files)), "Load_130")

\* one turn of the file loop; err names the file that failed
LoadStep(t, overload) ==
    LET filename == call[t].files[fidx[t]]
        r == loadFile(host, filename, overload)
    IN /\ host' = r.host
       /\ IF r.err
          THEN /\ Finish(t, Ret(filename, TRUE))
               /\ fidx' = [fidx EXCEPT ![t] = 1]
          ELSE IF fidx[t] < Len(call[t].files)
          THEN /\ fidx' = [fidx EXCEPT ![t] = fidx[t] + 1]
               /\ UNCHANGED <<pc, ret>>
          ELSE /\ Finish(t, Ret("", FALSE))
               /\ fidx' = [fidx EXCEPT ![t] = 1]
       /\ UNCHANGED <<variant, env, stale, mu, call, todo, h0, e0>>

\* env.go:130-136  for _, filename := range filenames { err = loadFile(filename, false) ... }
Load_130(t) ==
    /\ pc[t] = "Load_130"
    /\ LoadStep(t, LoadOverload)

\* Overload(files...): the loop of Load with loadFile(filename, true)
DoOverload(files) ==
    /\ variant = "host"
    /\ Begin(Main, MkLoad("Overload", filenamesOrDefault(files)), "Overload_loop")

Overload_loop(t) ==
    /\ pc[t] = "Overload_loop"
    /\ LoadStep(t, TRUE)

\* os.Setenv / os.Unsetenv called by the program between two calls
DoSetenv(key, v) ==
    LET r == Setenv(host, key, v) IN HostDo(MkCall("Setenv", key, v), Ret(<<>>, r.err), r.host)

DoUnsetenv(key) ==
    /\ key \in DOMAIN host
    /\ HostDo(MkCall("Unsetenv", key, <<>>), Ret(<<>>, FALSE), MapDel(host, key))

----------------------------------------------------------------------------
(* Specifications *)

HostVals == Vals \cup {<<>>}

InitCommon ==
    /\ stale = NoStale
    /\ mu = [w |-> NoThread, r |-> {}]
    /\ pc = [t \in Threads |-> "idle"]
    /\ call = [t \in Threads |-> NoCall]
    /\ ret = [t \in Threads |-> NoRet]
    /\ todo = [t \in Threads |-> {}]
    /\ fidx = [t \in Threads |-> 1]
    /\ h0 = host
    /\ e0 = env

\* env.go has no state of its own: the host environment is all there is
InitHost(vs) ==
    /\ variant = "host"
    /\ host \in Maps(Keys, vs)
    /\ env = EmptyMap
    /\ InitCommon

\* part_002:16-19  init(): Load(); loadSystemEnv() -- the Store starts as a
\* copy of the host environment
InitStore(vs) ==
    /\ variant = "store"
    /\ host \in Maps(Keys, vs)
    /\ env = host
    /\ InitCommon

\* Sequential use of the API of either build: loading files, writing and
\* reading the environment.
Init == InitHost(HostVals) \/ InitStore(Vals)

NextHost ==
    \/ \E fs \in FileSeqs : DoLoad(fs)
    \/ \E fs \in FileSeqs : DoOverload(fs)
    \/ \E k \in Keys : DoGet(k, Dflt)
    \/ \E k \in Keys \cup {BadKey}, v \in HostVals : DoSetenv(k, v)
    \/ \E k \in Keys : DoUnsetenv(k)
    \/ Load_130(Main)
    \/ Overload_loop(Main)

NextStore ==
    \/ \E k \in Keys : CallGet(Main, k, Dflt)
    \/ \E k \in Keys : CallMustGet(Main, k)
    \/ \E k \in Keys, v \in Vals : CallSet(Main, k, v)
    \/ \E k \in Keys \cup {BadKey}, v \in Vals : CallMustSet(Main, k, v)
    \/ CallReload(Main)
    \/ \E fs \in FileSeqs : CallStoreLoad(Main, fs)
    \/ \E k \in Keys, v \in Vals : OsSetenv(Main, k, v)
    \/ \E k \in Keys : OsUnsetenv(Main, k)
    \/ ReaderSteps(Main)
    \/ WriterSteps(Main)
    \/ ReloadSteps(Main)
    \/ LoadSteps(Main)

Next == NextHost \/ NextStore

Spec == Init /\ [][Next]_vars

\* Several threads read the Store while others reload it.
InitReload == InitStore(Vals)

NextReload ==
    \E t \in Threads :
        \/ \E k \in Keys : CallGet(t, k, Dflt)
        \/ CallReload(t)
        \/ ReaderSteps(t)
        \/ ReloadSteps(t)

SpecReload == InitReload /\ [][NextReload]_vars

----------------------------------------------------------------------------
(* The accessors of either build over one key and a range of values *)

AccKey == "K1"

TrimVals == {
    <<>>,
    <<" ">>,
    <<"f", "o", "o">>,
    <<" ", "f", "o", "o", " ">>,
    <<"f", "o", "o", " ">>,
    <<" ", "f", "o", "o">>,
    <<" ", " ">> }

BoolVals == {
    <<"t", "r", "u", "e">>,
    <<"1">>,
    <<"t">>,
    <<"T">>,
    <<"T", "R", "U", "E">>,
    <<"T", "r", "u", "e">>,
    <<"f", "a", "l", "s", "e">>,
    <<"0">>,
    <<"t", "R", "U", "E">>,
    <<"y", "e", "s">>,
    <<" ", "t", "r", "u", "e", " ">> }

IntVals == {
    <<"4", "2">>,
    <<" ", "4", "2", " ">>,
    <<"1", "2", "7">>,
    <<"1", "2", "8">>,
    <<"-", "1", "2", "8">>,
    <<"-", "1", "2", "9">>,
    <<"2", "5", "5">>,
    <<"2", "5", "6">>,
    <<"-", "1">>,
    <<"i", "n", "v", "a", "l", "i", "d">>,
    <<"+", "5">>,
    <<"0", "0", "7">>,
    <<"-", "0">>,
    <<"-">>,
    <<"1", " ", "2">>,
    <<"1", "2", "a">>,
    <<"3", "2", "7", "6", "7">>,
    <<"3", "2", "7", "6", "8">>,
    <<"-", "3", "2", "7", "6", "8">>,
    <<"-", "3", "2", "7", "6", "9">>,
    <<"6", "5", "5", "3", "5">>,
    <<"6", "5", "5", "3", "6">>,
    <<"2", "1", "4", "7", "4", "8", "3", "6", "4", "7">>,
    <<"2", "1", "4", "7", "4", "8", "3", "6", "4", "8">>,
    <<"-", "2", "1", "4", "7", "4", "8", "3", "6", "4", "8">>,
    <<"-", "2", "1", "4", "7", "4", "8", "3", "6", "4", "9">>,
    <<"4", "2", "9", "4", "9", "6", "7", "2", "9", "5">>,
    <<"4", "2", "9", "4", "9", "6", "7", "2", "9", "6">>,
    <<"9", "2", "2", "3", "3", "7", "2", "0", "3", "6", "8", "5", "4", "7", "7", "5", "8", "0", "7">>,
    <<"9", "2", "2", "3", "3", "7", "2", "0", "3", "6", "8", "5", "4", "7", "7", "5", "8", "0", "8">>,
    <<"-", "9", "2", "2", "3", "3", "7", "2", "0", "3", "6", "8", "5", "4", "7", "7", "5", "8", "0", "8">>,
    <<"-", "9", "2", "2", "3", "3", "7", "2", "0", "3", "6", "8", "5", "4", "7", "7", "5", "8", "0", "9">>,
    <<"1", "8", "4", "4", "6", "7", "4", "4", "0", "7", "3", "7", "0", "9", "5", "5", "1", "6", "1", "5">>,
    <<"1", "8", "4", "4", "6", "7", "4", "4", "0", "7", "3", "7", "0", "9", "5", "5", "1", "6", "1", "6">>,
    <<"9", "9", "9", "9", "9", "9", "9", "9", "9", "9", "9", "9", "9", "9", "9", "9", "9", "9", "9", "9">>,
    <<"8", "0", "8", "0">> }

DurVals == {
    <<"3", "s">>,
    <<"1", "h", "3", "0", "m">>,
    <<"1", "0">>,
    <<"s">>,
    <<"-", "5", "m", "s">>,
    <<"+", "3", "s">>,
    <<"9", "2", "2", "3", "3", "7", "2", "0", "3", "6", "8", "5", "4", "7", "7", "5", "8", "0", "7", "n", "s">>,
    <<"9", "2", "2", "3", "3", "7", "2", "0", "3", "6", "8", "5", "4", "7", "7", "5", "8", "0", "8", "n", "s">>,
    <<"2", "5", "6", "2", "0", "4", "7", "h">>,
    <<"2", "5", "6", "2", "0", "4", "8", "h">>,
    <<"3", "x">> }

AccVals == TrimVals \cup BoolVals \cup IntVals \cup DurVals

\* the values the Store is given
StoreAccVals == TrimVals \cup {<<"t", "r", "u", "e">>, <<"T", "R", "U", "E">>, <<"4", "2">>, <<"i", "n", "v", "a", "l", "i", "d">>}

\* defaults handed to Int[T] and to Duration
IntDefaults(T) == {Word(0, Width(T)), Word(42, Width(T))}
DurDefault == Word(1000, 64)

SetSteps(t) == Lock(t) \/ Set_117(t) \/ Unlock(t)

InitAcc ==
    \/ /\ variant = "host"
       /\ host \in Maps({AccKey}, AccVals)
       /\ env = EmptyMap
       /\ InitCommon
    \/ /\ variant = "store"
       /\ host \in Maps({AccKey}, StoreAccVals)
       /\ env = host
       /\ InitCommon

NextAcc ==
    \/ DoGet(AccKey, Dflt)
    \/ DoString(AccKey, Dflt)
    \/ DoIsSet(AccKey)
    \/ \E d \in BOOLEAN : DoBool(AccKey, d)
    \/ \E T \in IntTypes : \E d \in IntDefaults(T) : DoInt(T, AccKey, d)
    \/ DoDuration(AccKey, DurDefault)
    \/ \E v \in StoreAccVals : CallSet(Main, AccKey, v)
    \/ CallReload(Main)
    \/ CallGet(Main, AccKey, Dflt)
    \/ CallMustGet(Main, AccKey)
    \/ \E d \in BOOLEAN : CallStoreBool(Main, AccKey, d)
    \/ \E d \in IntDefaults("int") : CallStoreInt(Main, AccKey, d)
    \/ ReaderSteps(Main)
    \/ SetSteps(Main)
    \/ ReloadSteps(Main)

SpecAcc == InitAcc /\ [][NextAcc]_vars

----------------------------------------------------------------------------
(* doubleQuoteEscape over every short line of special and plain characters *)

\* length of the lines handed to doubleQuoteEscape
MaxLine == 3

\* the lines: the seven special characters and the letters a and n
EscLines ==
    LET EscChars == {"\\", "\n", "\r", "\"", "!", "$", Backquote, "a", "n"}
    IN UNION {[1..n -> EscChars] : n \in 0..MaxLine}

\* the value Marshal is about to quote
MkLine(line) == MkCall("line", "", line)

\* env.go:153  doubleQuoteEscape(v), for the value at hand
DoEscape ==
    /\ call[Main].op = "line"
    /\ HostDo(MkCall("doubleQuoteEscape", "", call[Main].val),
              Ret(doubleQuoteEscape(call[Main].val), FALSE), host)

InitEscape ==
    /\ variant = "host"
    /\ host = EmptyMap
    /\ env = EmptyMap
    /\ stale = NoStale
    /\ mu = [w |-> NoThread, r |-> {}]
    /\ pc = [t \in Threads |-> "idle"]
    /\ \E line \in EscLines : call = [t \in Threads |-> IF t = Main THEN MkLine(line) ELSE NoCall]
    /\ ret = [t \in Threads |-> NoRet]
    /\ todo = [t \in Threads |-> {}]
    /\ fidx = [t \in Threads |-> 1]
    /\ h0 = host
    /\ e0 = env

NextEscape == DoEscape

SpecEscape == InitEscape /\ [][NextEscape]_vars
----------------------------------------------------------------------------
(* Marshal in one process, Load of its text in a fresh one *)

MarshalVals == {
    <<>>,
    <<"f", "o", "o">>,
    <<" ", "f", "o", "o", " ">>,
    <<"4", "2">>,
    <<" ", "4", "2">>,
    <<"0", "0", "7">>,
    <<"-", "5">>,
    <<"+", "5">>,
    <<"a", "!", "b">>,
    <<"a", "\"">>,
    <<"\"", "a", "\"">>,
    <<"\\", "n">>,
    <<"a", "\n", "b">>,
    <<"a", "\r">>,
    <<"a", "=", "b">>,
    <<"a", ":", "b">>,
    <<"#", "a">>,
    <<"$", "x">>,
    <<Backquote>>,
    <<"a", " ", "b">> }

\* env.go:141  Marshal()
DoMarshal ==
    /\ call[Main].op = "none"
    /\ HostDo(MkCall("Marshal", "", <<>>), Ret(Marshal(host), FALSE), host)

\* env.go:182-202  loadFile of a file holding the text Marshal returned, in
\* a process whose environment has none of the keys
DoLoadMarshalled ==
    /\ call[Main].op = "Marshal"
    /\ ret[Main].done
    /\ LET r == parseText(ret[Main].val) IN
       HostDo(MkCall("LoadMarshalled", "", ret[Main].val), Ret(<<>>, r.err),
              IF r.err THEN EmptyMap ELSE applyEnvMap(EmptyMap, r.envMap, LoadOverload))

InitMarshal ==
    /\ variant = "host"
    /\ \E ks \in SUBSET MarshalKeys :
          /\ Cardinality(ks) <= 2
          /\ host \in [ks -> MarshalVals]
    /\ env = EmptyMap
    /\ InitCommon

NextMarshal == DoMarshal \/ DoLoadMarshalled

SpecMarshal == InitMarshal /\ [][NextMarshal]_vars
----------------------------------------------------------------------------
(* Concurrent MustSet and Reload (part_002:21-37, 87-99) *)

\* the key the writers set
SetKey == "K1"

\* Every thread calls MustSet(SetKey, a), MustSet(SetKey, b) or Reload, as
\* often and in whatever overlap the scheduler allows; nothing else writes
\* the host environment.
NextMustSet ==
    \E t \in Threads :
        \/ \E v \in Vals : CallMustSet(t, SetKey, v)
        \/ CallReload(t)
        \/ Lock(t) \/ MustSet_93(t) \/ MustSet_97(t) \/ Unlock(t)
        \/ ReloadSteps(t)

SpecMustSet == InitStore(Vals) /\ [][NextMustSet]_vars

----------------------------------------------------------------------------
(* What the files on disk say, read off FileTable directly *)

FileOk(f) == FileTable[f].exists /\ ~FileTable[f].bad

FileDefines(f, k) ==
    \E i \in 1..Len(FileTable[f].pairs) : FileTable[f].pairs[i][1] = k

\* the value of the last line of f that assigns k
FileValue(f, k) ==
    LET ps == FileTable[f].pairs
        last == CHOOSE i \in 1..Len(ps) :
                    /\ ps[i][1] = k
                    /\ \A j \in (i + 1)..Len(ps) : ps[j][1] # k
    IN ps[last][2]

DefinedKeys(fs) == {k \in Keys : \E i \in 1..Len(fs) : FileDefines(fs[i], k)}

FirstDefining(fs, k) ==
    CHOOSE i \in 1..Len(fs) :
        FileDefines(fs[i], k) /\ \A j \in 1..(i - 1) : ~FileDefines(fs[j], k)

LastDefining(fs, k) ==
    CHOOSE i \in 1..Len(fs) :
        FileDefines(fs[i], k) /\ \A j \in (i + 1)..Len(fs) : ~FileDefines(fs[j], k)

\* index of the first file that cannot be loaded, 0 when all can
FirstFailing(fs) ==
    IF \E i \in 1..Len(fs) : ~FileOk(fs[i])
    THEN CHOOSE i \in 1..Len(fs) : ~FileOk(fs[i]) /\ \A j \in 1..(i - 1) : FileOk(fs[j])
    ELSE 0

\* the files a Load call works on
Effective(fs) == IF fs = <<>> THEN <<DefaultFile>> ELSE fs

\* h after merging fs without override: a key of h keeps its value, any
\* other key takes the value of the first file that defines it
FirstWins(h, fs) ==
    [k \in DOMAIN h \cup DefinedKeys(fs) |->
        IF k \in DOMAIN h THEN h[k] ELSE FileValue(fs[FirstDefining(fs, k)], k)]

----------------------------------------------------------------------------
(* C1 *)

\* C1: while threads reload the Store and others read it, every Get of a
\* key that the host environment holds throughout (and the Store held before
\* the reload) returns that key's value, never the caller's default: a Get
\* sees the whole mapping of before or of after the reload.
\* Under SpecReload the host environment never changes and the Store starts
\* as its copy, so such a key is any key of host.
C1_GetSeesWholeSnapshot ==
    \A t \in Threads :
        (call[t].op = "Get" /\ ret[t].done /\ call[t].key \in DOMAIN host)
            => ret[t].val = host[call[t].key]

----------------------------------------------------------------------------
(* C2 *)

\* C2: Load without override, file by file: a key the host environment
\* already has keeps its value when the file is applied; a key it lacks gets
\* the file's value, which Get(key, "") then returns.
C2_LoadFileKeepsPresentSetsAbsent ==
    [][(variant = "host" /\ pc[Main] = "Load_130"
            /\ FileOk(call[Main].files[fidx[Main]]))
        => LET f == call[Main].files[fidx[Main]] IN
           \A k \in DefinedKeys(<<f>>) :
               IF k \in DOMAIN host
               THEN k \in DOMAIN host' /\ host'[k] = host[k]
               ELSE /\ k \in DOMAIN host'
                    /\ host'[k] = FileValue(f, k)
                    /\ Get(host', k, <<>>) = FileValue(f, k)]_vars

\* a one-file Load has returned: one key was kept against the file, another
\* was taken from it
C2_Witness ==
    /\ variant = "host" /\ call[Main].op = "Load" /\ ret[Main].done /\ ~ret[Main].err
    /\ Len(call[Main].files) = 1
    /\ \E k \in DOMAIN h0 \cap DefinedKeys(call[Main].files) :
          host[k] = h0[k] /\ h0[k] # FileValue(call[Main].files[1], k)
    /\ \E k \in DefinedKeys(call[Main].files) \ DOMAIN h0 :
          Get(host, k, <<>>) = FileValue(call[Main].files[1], k)

----------------------------------------------------------------------------
(* C3 *)

\* C3: Load (of either build) takes its files in order and stops at the
\* first that cannot be loaded: it returns an error exactly when some file
\* fails, the error is that of the first failing file, and the host
\* environment then holds the keys merged from the files before it and
\* nothing from the failing file or any file after it.
C3_LoadFailFast ==
    \A t \in Threads :
        (call[t].op = "Load" /\ ret[t].done) =>
            LET fs == Effective(call[t].files)
                i == FirstFailing(fs)
            IN /\ ret[t].err = (i # 0)
               /\ i # 0 => /\ ret[t].val = fs[i]
                           /\ host = FirstWins(h0, SubSeq(fs, 1, i - 1))
               /\ i = 0 => host = FirstWins(h0, fs)

\* the second of three files failed: the first left a key behind, the third
\* defines a key that is still unset
C3_Witness ==
    \E t \in Threads :
        /\ call[t].op = "Load" /\ ret[t].done /\ ret[t].err
        /\ Len(call[t].files) = 3
        /\ FirstFailing(call[t].files) = 2
        /\ \E k \in DOMAIN host \ DOMAIN h0 : FileDefines(call[t].files[1], k)
        /\ \E k \in Keys \ DOMAIN host : FileDefines(call[t].files[3], k)

----------------------------------------------------------------------------
(* C4 *)

\* C4: with a single caller, when Reload has returned and when Load has
\* returned without error, the Store is exactly the host environment: same
\* keys, same values; what Set had added on top is gone.
C4_StoreMirrorsHost ==
    (/\ variant = "store"
     /\ ret[Main].done
     /\ \/ call[Main].op = "Reload"
        \/ call[Main].op = "Load" /\ ~ret[Main].err)
        => env = host

\* Reload has dropped a key that only the Store had
C4_Witness ==
    /\ variant = "store" /\ call[Main].op = "Reload" /\ ret[Main].done
    /\ \E k \in DOMAIN e0 : k \notin DOMAIN h0 /\ k \notin DOMAIN env

----------------------------------------------------------------------------
(* C5 *)

\* C5: in overload mode, after all files were applied, every key that some
\* file defines holds the value of the last file defining it, whatever the
\* host environment held before.
C5_OverloadLastFileWins ==
    (variant = "host" /\ call[Main].op = "Overload" /\ ret[Main].done /\ ~ret[Main].err)
        => \A k \in DefinedKeys(call[Main].files) :
               /\ k \in DOMAIN host
               /\ host[k] = FileValue(call[Main].files[LastDefining(call[Main].files, k)], k)

\* two files define a key the host environment already had with another
\* value, and the later file's value replaced it
C5_Witness ==
    /\ variant = "host" /\ call[Main].op = "Overload" /\ ret[Main].done /\ ~ret[Main].err
    /\ \E k \in DOMAIN h0 :
          /\ Cardinality({i \in 1..Len(call[Main].files) :
                             FileDefines(call[Main].files[i], k)}) >= 2
          /\ FirstDefining(call[Main].files, k) # LastDefining(call[Main].files, k)
          /\ FileValue(call[Main].files[FirstDefining(call[Main].files, k)], k) # host[k]
          /\ h0[k] # host[k]

----------------------------------------------------------------------------
(* C6 *)

\* C6: Load without override never lets a later file replace an earlier
\* one: a key that was unset before the call holds, after a successful
\* Load, the value of the first file that defines it.
C6_LoadFirstFileWins ==
    (variant = "host" /\ call[Main].op = "Load" /\ ret[Main].done /\ ~ret[Main].err)
        => \A k \in DefinedKeys(call[Main].files) \ DOMAIN h0 :
               /\ k \in DOMAIN host
               /\ host[k] = FileValue(call[Main].files[FirstDefining(call[Main].files, k)], k)

\* two files gave different values to a key that was unset
C6_Witness ==
    /\ variant = "host" /\ call[Main].op = "Load" /\ ret[Main].done /\ ~ret[Main].err
    /\ \E k \in DefinedKeys(call[Main].files) \ DOMAIN h0 :
          LET fs == call[Main].files IN
          /\ FirstDefining(fs, k) # LastDefining(fs, k)
          /\ FileValue(fs[FirstDefining(fs, k)], k) # FileValue(fs[LastDefining(fs, k)], k)

----------------------------------------------------------------------------
(* C7 *)

\* C7: Set(key, value) leaves the host environment as it was, for every
\* key, at each step and after it returned; once it has returned, a Get of
\* the key reads `value` from the Store and MustGet finds the key.
C7_SetTouchesOnlyStore ==
    \A t \in Threads :
        (variant = "store" /\ call[t].op = "Set") =>
            /\ host = h0
            /\ ret[t].done =>
                  /\ StoreGet(env, call[t].key, Dflt).val = call[t].val
                  /\ ~MustGet(env, call[t].key).err
                  /\ MustGet(env, call[t].key).val = call[t].val

\* Set has returned for a key the host environment does not have
C7_Witness ==
    \E t \in Threads :
        /\ variant = "store" /\ call[t].op = "Set" /\ ret[t].done
        /\ call[t].key \notin DOMAIN host
        /\ env[call[t].key] = call[t].val


----------------------------------------------------------------------------
(* C8 *)

\* a value that is empty or made of spaces only
Blank(v) == \A i \in 1..Len(v) : v[i] = " "

\* C8: Get(key, d) and String(key, d) return the trimmed value of the key
\* only when the key is present with a non-empty value; when the key is
\* unset, or set to the empty string or to spaces only, they return d.
C8_GetDefaultsOnEmpty ==
    (variant = "host" /\ call[Main].op \in {"Get", "String"} /\ ret[Main].done) =>
        LET k == call[Main].key IN
        IF k \in DOMAIN host /\ ~Blank(host[k])
        THEN ret[Main].val = fastTrim(host[k])
        ELSE ret[Main].val = call[Main].val

----------------------------------------------------------------------------
(* C9 *)

\* C9: for a key that neither the host environment nor the Store holds,
\* every typed accessor of either build returns the default it was given,
\* and no error: Get and String, Bool (for both defaults), Int (for every
\* integer type), Duration; IsSet returns false.
C9_AbsentKeyGivesDefault ==
    \A t \in Threads :
        (/\ ret[t].done
         /\ call[t].key \notin DOMAIN host
         /\ call[t].key \notin DOMAIN env) =>
            /\ call[t].op \in {"Get", "String", "Bool", "Int", "Duration"}
                  => ret[t].val = call[t].val /\ ~ret[t].err
            /\ call[t].op = "IsSet" => ret[t].val = FALSE

\* Int[uint8] of an absent key has returned its default, 42
C9_Witness ==
    /\ variant = "host" /\ call[Main].op = "Int" /\ call[Main].typ = "uint8"
    /\ ret[Main].done /\ ~ret[Main].err
    /\ call[Main].key \notin DOMAIN host
    /\ call[Main].val = Word(42, 8)
    /\ ret[Main].val = Word(42, 8)

----------------------------------------------------------------------------
(* C10 *)
(* Decimal notation, worked out on the digits and independently of strconv *)

AllDigits(s) == s # <<>> /\ \A i \in 1..Len(s) : IsDigit(s[i])

\* v is the base-10 notation of an integer of a signed (digits after an
\* optional sign) or unsigned (digits only) type
IsNumeral(v, signed) ==
    IF signed /\ v # <<>> /\ Head(v) \in {"+", "-"}
    THEN AllDigits(Tail(v))
    ELSE AllDigits(v)

RECURSIVE StripZeros(_)
StripZeros(s) ==
    IF Len(s) > 1 /\ Head(s) = "0" THEN StripZeros(Tail(s)) ELSE s

\* the digits of |n|, without leading zeros
Magnitude(v) == StripZeros(IF Head(v) \in {"+", "-"} THEN Tail(v) ELSE v)

IsNegative(v) == Head(v) = "-" /\ Magnitude(v) # <<"0">>

\* the notation of n in its shortest form
Canon(v) == IF IsNegative(v) THEN <<"-">> \o Magnitude(v) ELSE Magnitude(v)

\* a <= b for digit strings without leading zeros
DecLeq(a, b) ==
    \/ Len(a) < Len(b)
    \/ /\ Len(a) = Len(b)
       /\ \/ a = b
          \/ \E i \in 1..Len(a) :
                /\ \A j \in 1..(i - 1) : a[j] = b[j]
                /\ DigitVal(a[i]) < DigitVal(b[i])

\* 2^(bits-1) - 1,  2^(bits-1),  2^bits - 1
DecMaxSigned(bits) ==
    CASE bits = 8 -> <<"1", "2", "7">>
      [] bits = 16 -> <<"3", "2", "7", "6", "7">>
      [] bits = 32 -> <<"2", "1", "4", "7", "4", "8", "3", "6", "4", "7">>
      [] bits = 64 -> <<"9", "2", "2", "3", "3", "7", "2", "0", "3", "6",
                        "8", "5", "4", "7", "7", "5", "8", "0", "7">>

DecMinMagnitude(bits) ==
    CASE bits = 8 -> <<"1", "2", "8">>
      [] bits = 16 -> <<"3", "2", "7", "6", "8">>
      [] bits = 32 -> <<"2", "1", "4", "7", "4", "8", "3", "6", "4", "8">>
      [] bits = 64 -> <<"9", "2", "2", "3", "3", "7", "2", "0", "3", "6",
                        "8", "5", "4", "7", "7", "5", "8", "0", "8">>

DecMaxUnsigned(bits) ==
    CASE bits = 8 -> <<"2", "5", "5">>
      [] bits = 16 -> <<"6", "5", "5", "3", "5">>
      [] bits = 32 -> <<"4", "2", "9", "4", "9", "6", "7", "2", "9", "5">>
      [] bits = 64 -> <<"1", "8", "4", "4", "6", "7", "4", "4", "0", "7",
                        "3", "7", "0", "9", "5", "5", "1", "6", "1", "5">>

\* the integer written v lies in the range of T
InRangeOf(v, T) ==
    IF ~Signed(T) THEN ~IsNegative(v) /\ DecLeq(Magnitude(v), DecMaxUnsigned(Width(T)))
    ELSE IF IsNegative(v) THEN DecLeq(Magnitude(v), DecMinMagnitude(Width(T)))
    ELSE DecLeq(Magnitude(v), DecMaxSigned(Width(T)))

\* a \div 10 and a % 10 for the little-endian bytes a[1..i], r carried in
RECURSIVE divmod10(_, _, _)
divmod10(a, i, r) ==
    IF i = 0 THEN [q |-> <<>>, r |-> r]
    ELSE LET cur == r * 256 + a[i]
             rest == divmod10(a, i - 1, cur % 10)
         IN [q |-> Append(rest.q, cur \div 10), r |-> rest.r]

AllZero(a) == \A i \in 1..Len(a) : a[i] = 0

RECURSIVE ToDec(_)
ToDec(a) ==
    IF AllZero(a) THEN <<>>
    ELSE LET d == divmod10(a, Len(a), 0) IN Append(ToDec(d.q), Digits[d.r + 1])

\* 2^(8 * Len(a)) - a, for a # 0
RECURSIVE Complement(_, _)
Complement(a, borrow) ==
    IF a = <<>> THEN <<>>
    ELSE LET x == 256 - borrow - Head(a)
         IN <<x % 256>> \o Complement(Tail(a), IF x = 256 THEN 0 ELSE 1)

\* the shortest base-10 notation of the integer a word of T holds
FormatWord(w, signed) ==
    IF AllZero(w) THEN <<"0">>
    ELSE IF signed /\ w[Len(w)] >= 128 THEN <<"-">> \o ToDec(Complement(w, 0))
    ELSE ToDec(w)

\* C10: for a key whose trimmed value v is not empty, Int[T](key, d)
\* returns no error exactly when v is the base-10 notation of an integer in
\* the range of T (of an optional sign and digits for a signed T, of digits
\* for an unsigned T), the boundary values included, and the result is then
\* that integer; a value out of range or not an integer gives an error and
\* is never wrapped or truncated into a success.
C10_IntParsesExactlyInRange ==
    (/\ variant = "host" /\ call[Main].op = "Int" /\ ret[Main].done
     /\ call[Main].key \in DOMAIN host
     /\ ~Blank(host[call[Main].key])) =>
        LET T == call[Main].typ
            v == fastTrim(host[call[Main].key])
            isInt == IsNumeral(v, Signed(T)) /\ InRangeOf(v, T)
        IN /\ ret[Main].err = ~isInt
           /\ ~ret[Main].err =>
                 /\ Len(ret[Main].val) = Width(T) \div 8
                 /\ FormatWord(ret[Main].val, Signed(T)) = Canon(v)

\* Int[uint64] has returned 2^64 - 1 for "18446744073709551615"
C10_Witness ==
    /\ variant = "host" /\ call[Main].op = "Int" /\ call[Main].typ = "uint64"
    /\ ret[Main].done /\ ~ret[Main].err
    /\ AccKey \in DOMAIN host
    /\ host[AccKey] = DecMaxUnsigned(64)
    /\ ret[Main].val = <<255, 255, 255, 255, 255, 255, 255, 255>>

----------------------------------------------------------------------------
(* C11 *)

\* v without its leading and trailing spaces
RECURSIVE Strip(_)
Strip(v) ==
    IF v # <<>> /\ Head(v) = " " THEN Strip(Tail(v))
    ELSE IF v # <<>> /\ v[Len(v)] = " " THEN Strip(SubSeq(v, 1, Len(v) - 1))
    ELSE v

TruthyLiterals ==
    {<<"t", "r", "u", "e">>, <<"1">>, <<"t">>, <<"T">>,
     <<"T", "R", "U", "E">>, <<"T", "r", "u", "e">>}

\* C11: Bool(key, d) of env.go returns true when the trimmed value of the
\* key is one of the literals true, 1, t, T, TRUE, True; for any other value
\* and for an absent key it returns d: a value that looks false never
\* forces false when d is true.
C11_BoolTruthyLiteralsElseDefault ==
    (variant = "host" /\ call[Main].op = "Bool" /\ ret[Main].done) =>
        LET k == call[Main].key IN
        ret[Main].val = IF k \in DOMAIN host /\ Strip(host[k]) \in TruthyLiterals
                        THEN TRUE
                        ELSE call[Main].val

\* Bool with default true has returned true for the value "false"
C11_Witness ==
    /\ variant = "host" /\ call[Main].op = "Bool" /\ ret[Main].done
    /\ call[Main].val = TRUE
    /\ AccKey \in DOMAIN host
    /\ host[AccKey] = <<"f", "a", "l", "s", "e">>
    /\ ret[Main].val = TRUE

----------------------------------------------------------------------------
(* C12 *)

\* C12: every write to the Store's map, and every replacement of the map
\* itself, happens while the write lock is held: no step changes `env`
\* while a reader holds the read lock or while no lock is held.
C12_WritesHoldWriteLock ==
    [][(variant = "store" /\ env' # env) => (mu.w # NoThread /\ mu.r = {})]_vars

----------------------------------------------------------------------------
(* C13 *)

\* C13: MustGet(key) returns an error exactly when the Store does not hold
\* the key, and the Store's value without error otherwise; it never reads
\* the host environment: a key written there behind the Store's back is not
\* found until the next Reload.
C13_MustGetErrorIffAbsentFromStore ==
    (variant = "store" /\ call[Main].op = "MustGet" /\ ret[Main].done) =>
        LET k == call[Main].key IN
        /\ ret[Main].err = (k \notin DOMAIN e0)
        /\ k \in DOMAIN e0 => ret[Main].val = e0[k]

\* MustGet has failed for a key that only the host environment holds
C13_Witness ==
    /\ variant = "store" /\ call[Main].op = "MustGet" /\ ret[Main].done
    /\ ret[Main].err
    /\ call[Main].key \in DOMAIN host
    /\ call[Main].key \notin DOMAIN env

----------------------------------------------------------------------------
(* C14 *)

\* C14: a MustSet(key, value) that returns no error has written value for
\* key to the host environment and to the Store; when the write to the host
\* environment fails, MustSet returns the error and the Store is as it was.
C14_MustSetWritesBothOrNeither ==
    (variant = "store" /\ call[Main].op = "MustSet" /\ ret[Main].done) =>
        LET k == call[Main].key IN
        IF ret[Main].err
        THEN env = e0
        ELSE /\ k \in DOMAIN host /\ host[k] = call[Main].val
             /\ k \in DOMAIN env /\ env[k] = call[Main].val

\* MustSet has returned nil for a key that neither side held
C14_Witness ==
    /\ variant = "store" /\ call[Main].op = "MustSet" /\ ret[Main].done
    /\ ~ret[Main].err
    /\ call[Main].key \notin DOMAIN h0 \cup DOMAIN e0
    /\ host[call[Main].key] = call[Main].val
    /\ env[call[Main].key] = call[Main].val

----------------------------------------------------------------------------
(* C15 *)

NoOuterSpace(v) == v = <<>> \/ (Head(v) # " " /\ v[Len(v)] # " ")

\* C15: whatever was loaded, set or written before, a value that Get
\* returns for a present key has no leading and no trailing space, in the
\* build that reads the host environment and in the build that reads the
\* Store.
C15_GetReturnsTrimmedValue ==
    \A t \in Threads :
        (/\ call[t].op = "Get" /\ ret[t].done
         /\ \/ variant = "host" /\ call[t].key \in DOMAIN host
            \/ variant = "store" /\ call[t].key \in DOMAIN env)
            => NoOuterSpace(ret[t].val)

----------------------------------------------------------------------------
(* C16 *)

\* C16: Load of the Store variant takes the files in the order received and
\* a redefined variable overrides the value it had: after a successful
\* Load(f1, f2) where both files define a key, Get(key, "") returns the
\* value f2 gives it.
C16_StoreLoadLaterFileOverrides ==
    (/\ variant = "store" /\ call[Main].op = "Load"
     /\ ret[Main].done /\ ~ret[Main].err
     /\ Len(call[Main].files) = 2) =>
        LET fs == call[Main].files IN
        \A k \in DefinedKeys(<<fs[1]>>) \cap DefinedKeys(<<fs[2]>>) :
            StoreGet(env, k, <<>>).val = FileValue(fs[2], k)

----------------------------------------------------------------------------
(* C17 *)

\* the escape of one character
EscapeOfChar(c) ==
    CASE c = "\\" -> <<"\\", "\\">>
      [] c = "\n" -> <<"\\", "n">>
      [] c = "\r" -> <<"\\", "r">>
      [] c \in {"\"", "!", "$", Backquote} -> <<"\\", c>>
      [] OTHER -> <<c>>

\* one pass over the line, from left to right
RECURSIVE SinglePass(_)
SinglePass(line) ==
    IF line = <<>> THEN <<>> ELSE EscapeOfChar(Head(line)) \o SinglePass(Tail(line))

\* C17: doubleQuoteEscape equals one left-to-right pass over the characters
\* that maps backslash, newline, carriage return and each of " ! $ ` to its
\* two-character escape and leaves every other character as it is: each
\* special character yields exactly one escape, and no backslash that a
\* substitution introduced is escaped again.
C17_EscapeIsSinglePass ==
    (call[Main].op = "doubleQuoteEscape" /\ ret[Main].done) =>
        LET line == call[Main].val
            special == {i \in 1..Len(line) :
                          \E j \in 1..Len(doubleQuoteSpecialChars) :
                              line[i] = doubleQuoteSpecialChars[j]}
        IN /\ ret[Main].val = SinglePass(line)
           /\ Len(ret[Main].val) = Len(line) + Cardinality(special)

\* a line of a double quote, a backslash and a newline has been escaped
\* into six characters
C17_Witness ==
    /\ call[Main].op = "doubleQuoteEscape" /\ ret[Main].done
    /\ call[Main].val = <<"\"", "\\", "\n">>
    /\ ret[Main].val = <<"\\", "\"", "\\", "\\", "\\", "n">>

----------------------------------------------------------------------------
(* C18 *)

\* reading back a two-character escape
RECURSIVE Unescape(_)
Unescape(s) ==
    IF s = <<>> THEN <<>>
    ELSE IF Head(s) = "\\" /\ Len(s) >= 2
    THEN <<(IF s[2] = "n" THEN "\n" ELSE IF s[2] = "r" THEN "\r" ELSE s[2])>>
             \o Unescape(SubSeq(s, 3, Len(s)))
    ELSE <<Head(s)>> \o Unescape(Tail(s))

IsQuoted(s) == Len(s) >= 2 /\ Head(s) = "\"" /\ s[Len(s)] = "\""

\* v is the notation of an integer that fits an int
IsIntText(v) == IsNumeral(v, TRUE) /\ InRangeOf(v, "int")

\* `loaded` is the value v in one of the two formats of Marshal: the
\* integer v denotes, or v between double quotes with its escapes
SameUpToFormatting(loaded, v) ==
    IF IsIntText(v) THEN loaded = Canon(v)
    ELSE IsQuoted(loaded) /\ Unescape(SubSeq(loaded, 2, Len(loaded) - 1)) = v

\* a key whose line the grammar reads as it was written: no colon in the
\* name, no # in front, no space at either end
PlainKey(k) ==
    LET name == KeyText(k) IN
    /\ \A i \in 1..Len(name) : name[i] # ":"
    /\ Head(name) # "#"
    /\ NoOuterSpace(name)

\* C18 (as stated): loading the text that Marshal returns for the host
\* environment E into an environment without those keys succeeds and gives
\* the keys of E, each with the value it has in E up to the integer or
\* quoted-string format.
C18_MarshalLoadRoundTrip ==
    (call[Main].op = "LoadMarshalled" /\ ret[Main].done) =>
        /\ ~ret[Main].err
        /\ DOMAIN host = DOMAIN h0
        /\ \A k \in DOMAIN h0 : SameUpToFormatting(host[k], h0[k])

\* C18 (amended): for a host environment E whose key names have no colon,
\* no # in front and no space at either end, loading the text that Marshal
\* returns for E into an environment without those keys succeeds and gives
\* the keys of E, each with the value it has in E without its leading and
\* trailing spaces, up to the integer or quoted-string format.
C18_MarshalLoadRoundTripTrimmed ==
    (/\ call[Main].op = "LoadMarshalled" /\ ret[Main].done
     /\ \A k \in DOMAIN h0 : PlainKey(k)) =>
        /\ ~ret[Main].err
        /\ DOMAIN host = DOMAIN h0
        /\ \A k \in DOMAIN h0 : SameUpToFormatting(host[k], Strip(h0[k]))

\* the round trip of an environment holding a!b and 007 has given "a\!b",
\* quotes and backslash included, and 7
C18_Witness ==
    /\ call[Main].op = "LoadMarshalled" /\ ret[Main].done /\ ~ret[Main].err
    /\ DOMAIN h0 = {"K1", "K2"}
    /\ h0["K1"] = <<"a", "!", "b">>
    /\ h0["K2"] = <<"0", "0", "7">>
    /\ host["K1"] = <<"\"", "a", "\\", "!", "b", "\"">>
    /\ host["K2"] = <<"7">>

----------------------------------------------------------------------------
(* C19 *)

AllReturned == \A t \in Threads : pc[t] = "idle"

\* a call MustSet(SetKey, v) of thread t has returned without error
SetReturned(t, v) ==
    /\ pc[t] = "idle"
    /\ call[t] = MkCall("MustSet", SetKey, v)
    /\ ret[t].done /\ ~ret[t].err

\* C19: under every interleaving of concurrent MustSet(k, v1), MustSet(k, v2)
\* and Reload calls, with no other writer of the host environment, once all
\* calls have returned the Store and the host environment agree on k, and
\* once a MustSet has returned that common value is v1 or v2.
C19_MustSetReloadAgreeOnKey ==
    (variant = "store" /\ AllReturned) =>
        /\ (SetKey \in DOMAIN env) = (SetKey \in DOMAIN host)
        /\ SetKey \in DOMAIN host => env[SetKey] = host[SetKey]
        /\ (\E t \in Threads, v \in Vals : SetReturned(t, v)) =>
              /\ SetKey \in DOMAIN env
              /\ env[SetKey] \in Vals

\* MustSet(K1, a), MustSet(K1, b) and Reload have all returned, on an
\* environment that did not have K1
C19_Witness ==
    /\ AllReturned
    /\ SetReturned("t1", ValA) /\ SetReturned("t2", ValB)
    /\ call["t3"].op = "Reload" /\ ret["t3"].done
    /\ env = host /\ env[SetKey] = ValA

====
